---- MODULE Spec2Model ----
(***************************************************************************)
(* A model of the Dify chat client (src/dify_client.py) and of its batch   *)
(* runner (src/question_batch.py).                                         *)
(*                                                                         *)
(* Text is modelled as a sequence of characters where the code inspects    *)
(* its characters (strip, blank test, command comparison) and as a TLA+    *)
(* string where the code only builds or forwards it.  A JSON object is a   *)
(* record whose fields hold Absent when the key is missing.  A file is a   *)
(* record [kind, entries]: what json.load makes of its content.            *)
(***************************************************************************)
EXTENDS Integers, Sequences, FiniteSets, TLC

\* Bounds of the model.
MaxCalls == 2
MaxLines == 2
MaxLineLen == 3
MaxStdin == 3

VARIABLES
    log_file,          \* content of self.log_file (dify_chat_log.json)
    desktop_log_file,  \* content of ~/Desktop/dify_chat_log.json
    clock,           \* the time datetime.datetime.now() last returned
    posts,           \* number of POST requests issued so far
    console,         \* what the last operation printed
    call,            \* the last send_message / get_answer call and its outcome
    questionsFile,   \* the lines of questions.txt
    readFault,       \* where reading questions.txt fails (NoFault: nowhere)
    questions,       \* the list load_questions_from_file returned
    i,               \* the batch loop's counter (enumerate(questions, 1))
    answers_only,    \* the batch runner's result rows
    csvFile,         \* the CSV written beside the script
    desktopCsvFile,  \* the CSV written to ~/Desktop
    stdin,           \* the lines the chat loop has not read yet
    promptParity,    \* parity of the number of prompts the chat loop has shown
    pc               \* position of the running script

clientVars == <<log_file, desktop_log_file, clock, posts, console, call>>
chatVars == <<stdin, promptParity>>
batchVars == <<questionsFile, readFault, questions, i, answers_only, csvFile, desktopCsvFile>>
vars == <<log_file, desktop_log_file, clock, posts, console, call,
          questionsFile, readFault, questions, i, answers_only, csvFile,
          desktopCsvFile, stdin, promptParity, pc>>

(***************************************************************************)
(* JSON values                                                             *)
(***************************************************************************)
Absent == "<absent>"

NoData == [kind |-> "absent", answer |-> Absent]

Body(error, answer, data) == [error |-> error, answer |-> answer, data |-> data]

\* The decoded JSON bodies a 2xx response may carry: the four shapes the
\* client knows ({answer}, {data: {answer}}, {error}, {}), bodies holding
\* several of the keys at once, an empty answer, and a "data" key that
\* holds null or an object without an answer.
Bodies ==
    { Body(Absent, "4", NoData),
      Body(Absent, Absent, [kind |-> "object", answer |-> "hi"]),
      Body("boom", Absent, NoData),
      Body(Absent, Absent, NoData),
      Body(Absent, "4", [kind |-> "object", answer |-> "hi"]),
      Body("boom", "4", [kind |-> "object", answer |-> "hi"]),
      Body(Absent, "", NoData),
      Body(Absent, Absent, [kind |-> "null", answer |-> Absent]),
      Body(Absent, Absent, [kind |-> "object", answer |-> Absent]) }

NoBody == [error |-> Absent, answer |-> Absent, data |-> NoData]

\* How the POST of send_message ends: a 2xx response with a JSON body, a
\* network error (session.post raises), a non-2xx status (raise_for_status
\* raises), a body that is not JSON (response.json() raises requests'
\* JSONDecodeError).  All three are RequestExceptions.
Outcomes == {"ok", "network", "http", "badjson"}

\* str(e) of the RequestException each failure raises.
ExcText(outcome) ==
    CASE outcome = "network" -> "Connection refused"
      [] outcome = "http" -> "500 Server Error"
      [] outcome = "badjson" -> "Expecting value"

\* How open(self.log_file, 'w') + json.dump end: written, PermissionError,
\* another OSError raised by open (the file is untouched), an OSError raised
\* after open truncated the file.
WriteOutcomes == {"ok", "perm", "oserr", "trunc"}

MissingFile == [kind |-> "missing", entries |-> <<>>]
CorruptFile == [kind |-> "corrupt", entries |-> <<>>]
ObjectFile == [kind |-> "object", entries |-> <<>>]
ArrayFile(logs) == [kind |-> "array", entries |-> logs]

\* The questions a caller passes to the client directly.
Questions == { <<"q">>, <<"a", " ", "b">> }

(***************************************************************************)
(* DifyClient._log_interaction                                             *)
(***************************************************************************)
\* Lines 92-99: the list read back from the log file.  A missing file and a
\* file json.load cannot decode give []; any other content is taken as is.
read_logs(lf) ==
    IF lf.kind = "array" THEN lf.entries ELSE <<>>

\* _log_interaction taking a permission error like any other write error.
log_interaction_without_fallback(lf, df, now, question, response, w1, desktopWritable) ==
    IF lf.kind = "object"
    THEN [raised |-> TRUE, exc |-> "AttributeError", log_file |-> lf,
          desktop_log_file |-> df, console |-> <<>>]
    ELSE IF w1 = "ok"
    THEN [raised |-> FALSE, exc |-> "", desktop_log_file |-> df, console |-> <<>>,
          log_file |-> ArrayFile(Append(read_logs(lf),
                        [timestamp |-> now, question |-> question,
                         response |-> response]))]
    ELSE [raised |-> FALSE, exc |-> "", desktop_log_file |-> df,
          log_file |-> IF w1 = "trunc" THEN CorruptFile ELSE lf,
          console |-> <<"log save error">>]

\* Lines 86-120.  Result: whether the call raised, the two files after it
\* and what it printed.  A log file holding a JSON object has no append():
\* line 101 raises AttributeError, outside every try of the method.
log_interaction(lf, df, now, question, response, w1, desktopWritable) ==
    LET log_entry == [timestamp |-> now, question |-> question, response |-> response]
        logs == Append(read_logs(lf), log_entry)
    IN  IF lf.kind = "object"
        THEN [raised |-> TRUE, exc |-> "AttributeError", log_file |-> lf,
              desktop_log_file |-> df, console |-> <<>>]
        ELSE CASE w1 = "ok" ->
                    [raised |-> FALSE, exc |-> "", log_file |-> ArrayFile(logs),
                     desktop_log_file |-> df, console |-> <<>>]
               [] w1 = "perm" ->
                    IF desktopWritable
                    THEN [raised |-> FALSE, exc |-> "", log_file |-> lf,
                          desktop_log_file |-> ArrayFile(logs),
                          console |-> <<"log permission error", "log path",
                                        "log saved to desktop">>]
                    ELSE [raised |-> FALSE, exc |-> "", log_file |-> lf,
                          desktop_log_file |-> df,
                          console |-> <<"log permission error", "log path",
                                        "desktop save failed too">>]
               [] w1 = "oserr" ->
                    [raised |-> FALSE, exc |-> "", log_file |-> lf,
                     desktop_log_file |-> df, console |-> <<"log save error">>]
               [] w1 = "trunc" ->
                    [raised |-> FALSE, exc |-> "", log_file |-> CorruptFile,
                     desktop_log_file |-> df, console |-> <<"log save error">>]

(***************************************************************************)
(* DifyClient.send_message                                                 *)
(***************************************************************************)
\* Lines 73-76: the result returned when the request raised.
error_result(outcome) ==
    [error |-> "API request failed: " \o ExcText(outcome),
     answer |-> Absent, data |-> NoData]

\* send_message logging the error result of a failed request too.
send_message_logging_failures(lf, df, now, message, outcome, body, w1, desktopWritable) ==
    LET response == IF outcome = "ok" THEN body ELSE error_result(outcome)
        lg == log_interaction(lf, df, now, message, response, w1, desktopWritable)
    IN  [raised |-> lg.raised, exc |-> lg.exc,
         result |-> IF lg.raised THEN NoBody ELSE response,
         log_file |-> lg.log_file, desktop_log_file |-> lg.desktop_log_file,
         console |-> lg.console, posts |-> 1, logged |-> TRUE]

\* Lines 52-76.  One POST; on a 2xx response with a JSON body the exchange
\* is logged inside the try, whose only handler is for RequestException.
send_message(lf, df, now, message, outcome, body, w1, desktopWritable) ==
    IF outcome = "ok"
    THEN LET lg == log_interaction(lf, df, now, message, body, w1, desktopWritable)
         IN  [raised |-> lg.raised, exc |-> lg.exc,
              result |-> IF lg.raised THEN NoBody ELSE body,
              log_file |-> lg.log_file, desktop_log_file |-> lg.desktop_log_file,
              console |-> lg.console, posts |-> 1, logged |-> TRUE]
    ELSE [raised |-> FALSE, exc |-> "", result |-> error_result(outcome),
          log_file |-> lf, desktop_log_file |-> df,
          console |-> <<"API request failed">>, posts |-> 1, logged |-> FALSE]

(***************************************************************************)
(* DifyClient.get_answer                                                   *)
(***************************************************************************)
NoAnswer == "No answer found in response"

\* Lines 134-143.  `"answer" in result["data"]` raises TypeError when data
\* is null.
extract_answer(result) ==
    IF result.error # Absent
    THEN [raised |-> FALSE, exc |-> "", value |-> "Error: " \o result.error]
    ELSE IF result.answer # Absent
    THEN [raised |-> FALSE, exc |-> "", value |-> result.answer]
    ELSE IF result.data.kind = "absent"
    THEN [raised |-> FALSE, exc |-> "", value |-> NoAnswer]
    ELSE IF result.data.kind = "null"
    THEN [raised |-> TRUE, exc |-> "TypeError", value |-> ""]
    ELSE IF result.data.answer # Absent
    THEN [raised |-> FALSE, exc |-> "", value |-> result.data.answer]
    ELSE [raised |-> FALSE, exc |-> "", value |-> NoAnswer]

\* Lines 132-143: send_message, then the extraction unless send_message
\* raised.
get_answer(lf, df, now, question, outcome, body, w1, desktopWritable) ==
    LET sm == send_message(lf, df, now, question, outcome, body, w1, desktopWritable)
        ex == extract_answer(sm.result)
    IN  [send |-> sm,
         raised |-> sm.raised \/ ex.raised,
         exc |-> IF sm.raised THEN sm.exc ELSE ex.exc,
         value |-> IF sm.raised THEN "" ELSE ex.value]

\* The record kept of a call: its inputs, what the environment did and what
\* it gave back.
CallRecord(op, question, outcome, body, w1, desktopWritable, ga) ==
    [op |-> op, question |-> question, outcome |-> outcome,
     body |-> IF outcome = "ok" THEN body ELSE NoBody,
     primaryWrite |-> IF outcome = "ok" /\ ~ga.send.raised THEN w1 ELSE "none",
     desktopWritable |-> desktopWritable,
     posts |-> ga.send.posts,
     sendRaised |-> ga.send.raised, result |-> ga.send.result,
     raised |-> ga.raised, exc |-> ga.exc, value |-> ga.value]

NoCall ==
    [op |-> "none", question |-> <<>>, outcome |-> "none", body |-> NoBody,
     primaryWrite |-> "none", desktopWritable |-> TRUE, posts |-> 0,
     sendRaised |-> FALSE, result |-> NoBody,
     raised |-> FALSE, exc |-> "", value |-> ""]

\* The environments of one call.  The writes matter only when the POST
\* succeeded; the desktop path is tried only after a PermissionError, so
\* only there is it also taken unwritable.
CallEnvs ==
    { e \in [outcome : Outcomes, body : Bodies \cup {NoBody}, w1 : WriteOutcomes,
             desktopWritable : BOOLEAN] :
        /\ e.outcome # "ok" => e.body = NoBody /\ e.w1 = "ok"
        /\ e.outcome = "ok" => e.body \in Bodies
        /\ e.w1 # "perm" => e.desktopWritable }

\* The state change of a get_answer call, shared by every caller: the two
\* log files, the POST count and the record of the call.
ClientStep(question, e, ga) ==
    /\ log_file' = ga.send.log_file
    /\ desktop_log_file' = ga.send.desktop_log_file
    /\ posts' = posts + ga.send.posts
    /\ call' = CallRecord("get_answer", question, e.outcome, e.body, e.w1,
                          e.desktopWritable, ga)

\* The time after the call: datetime.now() is read only by the logging step.
ClockAfter(ga) == IF ga.send.logged THEN clock + 1 ELSE clock

(***************************************************************************)
(* The client used directly                                                *)
(***************************************************************************)
NoFault == [raises |-> FALSE, after |-> 0]
NoCsv == [kind |-> "missing", header |-> <<>>, rows |-> <<>>]

IdleBatch ==
    /\ questionsFile = <<>>
    /\ readFault = NoFault
    /\ questions = <<>>
    /\ i = 1
    /\ answers_only = <<>>
    /\ csvFile = NoCsv
    /\ desktopCsvFile = NoCsv

FreshClient ==
    /\ desktop_log_file = MissingFile
    /\ clock = 0
    /\ posts = 0
    /\ console = <<>>
    /\ call = NoCall

Init ==
    /\ log_file \in {MissingFile, ArrayFile(<<>>), CorruptFile, ObjectFile}
    /\ FreshClient
    /\ IdleBatch
    /\ stdin = <<>>
    /\ promptParity = 0
    /\ pc = "client"

GetAnswer ==
    \E question \in Questions, e \in CallEnvs :
        LET ga == get_answer(log_file, desktop_log_file, clock + 1, question,
                             e.outcome, e.body, e.w1, e.desktopWritable)
        IN  /\ pc = "client"
            /\ posts < MaxCalls
            /\ ClientStep(question, e, ga)
            /\ clock' = ClockAfter(ga)
            /\ console' = ga.send.console
            /\ UNCHANGED <<batchVars, chatVars, pc>>

Next == GetAnswer

Spec == Init /\ [][Next]_vars

(***************************************************************************)
(* str.strip                                                               *)
(***************************************************************************)
IsSpace(c) == c = " "

RECURSIVE lstrip(_)
lstrip(s) == IF s # <<>> /\ IsSpace(Head(s)) THEN lstrip(Tail(s)) ELSE s

RECURSIVE rstrip(_)
rstrip(s) ==
    IF s # <<>> /\ IsSpace(s[Len(s)]) THEN rstrip(SubSeq(s, 1, Len(s) - 1)) ELSE s

strip(s) == rstrip(lstrip(s))

SeqsUpTo(S, n) == UNION { [1..k -> S] : k \in 0..n }

(***************************************************************************)
(* load_questions_from_file                                                *)
(***************************************************************************)
\* Lines 25-28: the loop over the lines the file yields before it raises.
RECURSIVE read_lines(_, _, _)
read_lines(lines, fault, acc) ==
    IF lines = <<>> \/ (fault.raises /\ fault.after = 0)
    THEN acc
    ELSE LET q == strip(Head(lines))
         IN  read_lines(Tail(lines),
                        [fault EXCEPT !.after = IF fault.raises THEN @ - 1 ELSE @],
                        IF q # <<>> THEN Append(acc, q) ELSE acc)

\* load_questions_from_file discarding what it read when reading fails.
load_questions_all_or_nothing(lines, fault) ==
    IF fault.raises THEN <<>> ELSE read_lines(lines, fault, <<>>)

\* Lines 22-31.  The except clause prints and falls through to the return
\* of whatever the loop had appended.
load_questions_from_file(lines, fault) == read_lines(lines, fault, <<>>)

\* The lines of a text file, and the ways reading it fails: not at all, or
\* with an exception after `after` lines were read (0: open itself fails).
Chars == {" ", "a"}
Lines == SeqsUpTo(Chars, MaxLineLen)
Faults(lines) ==
    {NoFault} \cup { [raises |-> TRUE, after |-> k] : k \in 0..Len(lines) }

LoadInit ==
    /\ log_file = MissingFile
    /\ FreshClient
    /\ questionsFile \in SeqsUpTo(Lines, MaxLines)
    /\ readFault \in Faults(questionsFile)
    /\ questions = <<>>
    /\ i = 1
    /\ answers_only = <<>>
    /\ csvFile = NoCsv
    /\ desktopCsvFile = NoCsv
    /\ stdin = <<>>
    /\ promptParity = 0
    /\ pc = "load"

LoadQuestions ==
    /\ pc = "load"
    /\ questions' = load_questions_from_file(questionsFile, readFault)
    /\ console' = IF readFault.raises THEN <<"question file read error">> ELSE <<>>
    /\ pc' = "loaded"
    /\ UNCHANGED <<log_file, desktop_log_file, clock, posts, call, questionsFile,
                   readFault, i, answers_only, csvFile, desktopCsvFile, chatVars>>

LoadNext == LoadQuestions

LoadSpec == LoadInit /\ [][LoadNext]_vars

(***************************************************************************)
(* The batch runner: save_answers_only and main                            *)
(***************************************************************************)
CsvHeader == <<"question_number", "timestamp", "question", "answer">>

CsvOf(answers) ==
    [kind |-> "written", header |-> CsvHeader,
     rows |-> [k \in 1..Len(answers) |->
                 <<answers[k].question_number, answers[k].timestamp,
                   answers[k].question, answers[k].answer>>]]

\* A CSV left behind by a write that failed after open created the file.
PartialCsv == [kind |-> "partial", header |-> <<>>, rows |-> <<>>]

\* Lines 52-97: the two CSV files after the call and what it printed.  The
\* file name carries the time of the run, so neither file existed before.
save_answers_only(answers, w1, desktopWritable) ==
    CASE w1 = "ok" ->
            [csvFile |-> CsvOf(answers), desktopCsvFile |-> NoCsv,
             console |-> <<"saved">>]
      [] w1 = "perm" ->
            IF desktopWritable
            THEN [csvFile |-> NoCsv, desktopCsvFile |-> CsvOf(answers),
                  console |-> <<"csv permission error", "saved to desktop">>]
            ELSE [csvFile |-> NoCsv, desktopCsvFile |-> NoCsv,
                  console |-> <<"csv permission error", "desktop save failed too">>]
      [] w1 = "oserr" ->
            [csvFile |-> NoCsv, desktopCsvFile |-> NoCsv,
             console |-> <<"csv save error">>]
      [] w1 = "trunc" ->
            [csvFile |-> PartialCsv, desktopCsvFile |-> NoCsv,
             console |-> <<"csv save error">>]

\* Line 165: the message recorded for a question whose call raised (the
\* source's text is Japanese: "question {i} failed with: {e}").
batch_error_msg(n, exc) == "Error at question " \o ToString(n) \o ": " \o exc

\* The loop body recording nothing for a question whose call raised.
batch_iteration_skipping_failures(answers, n, question, ga, now) ==
    IF ga.raised
    THEN answers
    ELSE Append(answers, [question_number |-> n, question |-> question,
                          answer |-> ga.value, timestamp |-> now])

\* Lines 151-174: the row one iteration appends, whether get_answer
\* returned or raised.
batch_iteration(answers, n, question, ga, now) ==
    IF ga.raised
    THEN Append(answers, [question_number |-> n, question |-> question,
                          answer |-> batch_error_msg(n, ga.exc),
                          timestamp |-> now])
    ELSE Append(answers, [question_number |-> n, question |-> question,
                          answer |-> ga.value, timestamp |-> now])

\* The environments the batch and chat loops are run in: an answer, the
\* "no answer" fallback, a response get_answer raises on, a failed request,
\* and an answer whose log write is refused.
LoopEnvs ==
    { e \in CallEnvs :
        \/ e.outcome = "network"
        \/ /\ e.outcome = "ok"
           /\ e.w1 = "ok"
           /\ e.body \in { Body(Absent, "4", NoData), Body(Absent, Absent, NoData),
                           Body(Absent, Absent, [kind |-> "null", answer |-> Absent]) }
        \/ /\ e.outcome = "ok"
           /\ e.w1 = "perm"
           /\ e.body = Body(Absent, "4", NoData) }

BatchLines == { <<>>, <<" ">>, <<"q">>, <<" ", "a", " ">> }

BatchInit ==
    /\ log_file \in {MissingFile, ObjectFile}
    /\ FreshClient
    /\ questionsFile \in SeqsUpTo(BatchLines, MaxLines)
    /\ readFault \in Faults(questionsFile)
    /\ questions = <<>>
    /\ i = 1
    /\ answers_only = <<>>
    /\ csvFile = NoCsv
    /\ desktopCsvFile = NoCsv
    /\ stdin = <<>>
    /\ promptParity = 0
    /\ pc = "main"

\* Lines 119-126: without DIFY_API_KEY main returns before anything else.
BatchNoKey ==
    /\ pc = "main"
    /\ console' = <<"no API key">>
    /\ pc' = "done"
    /\ UNCHANGED <<log_file, desktop_log_file, clock, posts, call, batchVars, chatVars>>

\* Lines 128-146: the client is built and the questions loaded; main
\* returns when there are none.
BatchStart ==
    /\ pc = "main"
    /\ questions' = load_questions_from_file(questionsFile, readFault)
    /\ console' = IF questions' = <<>> THEN <<"no questions">> ELSE <<"Dify API Test">>
    /\ pc' = IF questions' = <<>> THEN "done" ELSE "loop"
    /\ UNCHANGED <<log_file, desktop_log_file, clock, posts, call, questionsFile,
                   readFault, i, answers_only, csvFile, desktopCsvFile, chatVars>>

\* Lines 148-176: one iteration of the loop.
BatchAsk ==
    \E e \in LoopEnvs :
        /\ pc = "loop"
        /\ i <= Len(questions)
        /\ LET question == questions[i]
               ga == get_answer(log_file, desktop_log_file, clock + 1, question,
                                e.outcome, e.body, e.w1, e.desktopWritable)
               now == ClockAfter(ga) + 1
           IN  /\ ClientStep(question, e, ga)
               /\ clock' = now
               /\ answers_only' = batch_iteration(answers_only, i, question, ga, now)
               /\ console' = ga.send.console
        /\ i' = i + 1
        /\ UNCHANGED <<questionsFile, readFault, questions, csvFile,
                       desktopCsvFile, chatVars, pc>>

\* Lines 178-186: the loop is over, the rows are saved and listed.
BatchSave ==
    \E w1 \in WriteOutcomes, desktopWritable \in BOOLEAN :
        /\ pc = "loop"
        /\ i > Len(questions)
        /\ w1 # "perm" => desktopWritable
        /\ LET sv == save_answers_only(answers_only, w1, desktopWritable)
           IN  /\ csvFile' = sv.csvFile
               /\ desktopCsvFile' = sv.desktopCsvFile
               /\ console' = sv.console
        /\ pc' = "done"
        /\ UNCHANGED <<log_file, desktop_log_file, clock, posts, call, questionsFile,
                       readFault, questions, i, answers_only, chatVars>>

BatchNext == BatchNoKey \/ BatchStart \/ BatchAsk \/ BatchSave

BatchSpec == BatchInit /\ [][BatchNext]_vars

(***************************************************************************)
(* The interactive chat loop: print_logs and main of dify_client.py        *)
(***************************************************************************)
\* Lines 149-168: what print_logs prints; it writes nothing.  An
\* undecodable file ends in the except clause; the JSON object {} has
\* length 0 and no entry to print.
print_logs(lf) ==
    CASE lf.kind = "missing" -> <<"No logs found.">>
      [] lf.kind = "corrupt" -> <<"Error reading logs">>
      [] OTHER -> <<"=== Chat Logs (" \o ToString(Len(lf.entries)) \o " entries) ===">>

HelpText == <<"Commands:", "  /logs - Show chat logs", "  /quit - Exit",
              "  /help - Show this help">>

\* The dispatch comparing the line as typed, without strip().
chat_command_unstripped(line) ==
    IF strip(line) = <<>> THEN "blank"
    ELSE IF line = <<"/quit">> THEN "quit"
    ELSE IF line = <<"/logs">> THEN "logs"
    ELSE IF line = <<"/help">> THEN "help"
    ELSE "ask"

\* Lines 191-206: what the loop does with a line it read.
chat_command(line) ==
    LET question == strip(line)
    IN  IF question = <<>> THEN "blank"
        ELSE IF question = <<"/quit">> THEN "quit"
        ELSE IF question = <<"/logs">> THEN "logs"
        ELSE IF question = <<"/help">> THEN "help"
        ELSE "ask"

\* The lines typed at the prompt.  A command word is one symbol of a line.
ChatLines ==
    { <<>>, <<" ">>, <<"/quit">>, <<" ", "/quit", " ">>, <<"/logs">>,
      <<"/help", " ">>, <<"q">>, <<"/quit", " ", "q">>, <<" ", "/logs", " ", "a">> }

ChatInit ==
    /\ log_file \in {MissingFile, ObjectFile}
    /\ FreshClient
    /\ IdleBatch
    /\ stdin \in SeqsUpTo(ChatLines, MaxStdin)
    /\ promptParity = 0
    /\ pc = "chat"

\* Line 191 at end of input: input() raises EOFError, an Exception; line
\* 215 catches it, prints it, and the loop goes on to prompt again.
ChatEOF ==
    /\ pc = "chat"
    /\ stdin = <<>>
    /\ console' = <<"Error: EOF when reading a line">>
    /\ promptParity' = 1 - promptParity
    /\ UNCHANGED <<log_file, desktop_log_file, clock, posts, call, batchVars, stdin, pc>>

\* Lines 193-194.
ChatBlank ==
    /\ pc = "chat"
    /\ stdin # <<>>
    /\ chat_command(Head(stdin)) = "blank"
    /\ stdin' = Tail(stdin)
    /\ promptParity' = 1 - promptParity
    /\ console' = <<>>
    /\ UNCHANGED <<log_file, desktop_log_file, clock, posts, call, batchVars, pc>>

\* Lines 196-197.
ChatQuit ==
    /\ pc = "chat"
    /\ stdin # <<>>
    /\ chat_command(Head(stdin)) = "quit"
    /\ stdin' = Tail(stdin)
    /\ promptParity' = 1 - promptParity
    /\ console' = <<>>
    /\ pc' = "done"
    /\ UNCHANGED <<log_file, desktop_log_file, clock, posts, call, batchVars>>

\* Lines 198-200.
ChatLogs ==
    /\ pc = "chat"
    /\ stdin # <<>>
    /\ chat_command(Head(stdin)) = "logs"
    /\ stdin' = Tail(stdin)
    /\ promptParity' = 1 - promptParity
    /\ console' = print_logs(log_file)
    /\ UNCHANGED <<log_file, desktop_log_file, clock, posts, call, batchVars, pc>>

\* Lines 201-206.
ChatHelp ==
    /\ pc = "chat"
    /\ stdin # <<>>
    /\ chat_command(Head(stdin)) = "help"
    /\ stdin' = Tail(stdin)
    /\ promptParity' = 1 - promptParity
    /\ console' = HelpText
    /\ UNCHANGED <<log_file, desktop_log_file, clock, posts, call, batchVars, pc>>

\* Lines 208-210, and 215-216 when get_answer raises.
ChatAsk ==
    \E e \in LoopEnvs :
        /\ pc = "chat"
        /\ stdin # <<>>
        /\ chat_command(Head(stdin)) = "ask"
        /\ LET question == strip(Head(stdin))
               ga == get_answer(log_file, desktop_log_file, clock + 1, question,
                                e.outcome, e.body, e.w1, e.desktopWritable)
           IN  /\ ClientStep(question, e, ga)
               /\ clock' = ClockAfter(ga)
               /\ console' = <<"Bot: ">> \o ga.send.console \o
                             (IF ga.raised THEN <<"Error: " \o ga.exc>>
                                           ELSE <<ga.value>>)
        /\ stdin' = Tail(stdin)
    /\ promptParity' = 1 - promptParity
        /\ UNCHANGED <<batchVars, pc>>

\* Lines 212-214: Ctrl-C at the prompt.
ChatInterrupt ==
    /\ pc = "chat"
    /\ console' = <<"Goodbye!">>
    /\ pc' = "done"
    /\ UNCHANGED <<log_file, desktop_log_file, clock, posts, call, batchVars, chatVars>>

\* The steps the program takes by itself.
ChatLoop == ChatEOF \/ ChatBlank \/ ChatQuit \/ ChatLogs \/ ChatHelp \/ ChatAsk

ChatNext == ChatLoop \/ ChatInterrupt

ChatSpec == ChatInit /\ [][ChatNext]_vars

\* The loop is a running program: it takes its next step whenever it has
\* one.  Nothing makes the user press Ctrl-C.
FairChatSpec == ChatInit /\ [][ChatNext]_vars /\ WF_vars(ChatLoop)

(***************************************************************************)
(* Properties                                                              *)
(***************************************************************************)
\* The entries a log file holds for a reader of it.
Persisted(f) == IF f.kind = "array" THEN f.entries ELSE <<>>

IsPrefix(s, t) == Len(s) <= Len(t) /\ SubSeq(t, 1, Len(s)) = s

\* The record a call made in this step has to leave in the log.
EntryOfCall == [timestamp |-> clock', question |-> call'.question,
                response |-> call'.body]

\* A step that is one send_message call.
IsCall == posts' = posts + 1

Increasing(entries) ==
    \A k \in 1..(Len(entries) - 1) : entries[k].timestamp < entries[k + 1].timestamp

C2_PriorityOrder ==
    (call.op = "get_answer" /\ ~call.sendRaised) =>
        LET r == call.result
        IN  /\ ~call.raised
            /\ call.value =
                 IF r.error # Absent THEN "Error: " \o r.error
                 ELSE IF r.answer # Absent THEN r.answer
                 ELSE IF r.data.kind = "object" /\ r.data.answer # Absent
                      THEN r.data.answer
                 ELSE NoAnswer

\* C3: get_answer returns a non-empty string and never raises, for every
\* outcome of the request and every state of the log file.
C3_NonEmptyNeverRaises ==
    call.op = "get_answer" => ~call.raised /\ call.value # ""

\* C5 as stated: after any failure of the primary log write, the entry is
\* persisted at the desktop path when that path is writable.
C5_FallbackOnAnyFailure ==
    [][(IsCall /\ call'.primaryWrite \in {"perm", "oserr", "trunc"}
               /\ call'.desktopWritable)
          => desktop_log_file' = ArrayFile(Append(Persisted(log_file), EntryOfCall))]_vars

\* C5 amended: when the primary log write is refused with a permission
\* error, the list with the new entry is persisted at the desktop path if
\* that path is writable, and confirmed; if it is not, no file changes and
\* both failures are reported.  After any other failure of the primary
\* write the desktop path is not tried: the entry is persisted nowhere and
\* the one failure is reported.  In every case send_message returns its
\* result.
C5_PermissionFallback ==
    [][IsCall =>
         /\ call'.primaryWrite = "perm" =>
              /\ log_file' = log_file
              /\ IF call'.desktopWritable
                 THEN /\ desktop_log_file' =
                            ArrayFile(Append(Persisted(log_file), EntryOfCall))
                      /\ console' = <<"log permission error", "log path",
                                      "log saved to desktop">>
                 ELSE /\ desktop_log_file' = desktop_log_file
                      /\ console' = <<"log permission error", "log path",
                                      "desktop save failed too">>
              /\ ~call'.sendRaised /\ call'.result = call'.body
         /\ call'.primaryWrite \in {"oserr", "trunc"} =>
              /\ desktop_log_file' = desktop_log_file
              /\ \A k \in 1..Len(Persisted(log_file')) :
                     Persisted(log_file')[k] # EntryOfCall
              /\ console' = <<"log save error">>
              /\ ~call'.sendRaised /\ call'.result = call'.body]_vars

\* The primary write was refused and the entry went to the desktop file.
C5_Witness ==
    /\ call.primaryWrite = "perm"
    /\ call.desktopWritable
    /\ desktop_log_file.kind = "array"
    /\ Len(desktop_log_file.entries) = 2
    /\ log_file.kind = "array"
    /\ Len(log_file.entries) = 1

\* C6: every entry persisted in a log file before a step is still there
\* after it, unmodified and in the same place; a step only adds at the end.
\* It is stated here for the steps whose write completes or is refused
\* before the file is touched.
C6_AppendOnly ==
    [][call'.primaryWrite # "trunc" =>
         /\ IsPrefix(Persisted(log_file), Persisted(log_file'))
         /\ IsPrefix(Persisted(desktop_log_file), Persisted(desktop_log_file'))]_vars

\* C7: send_message issues one POST and does not raise; when the request
\* fails it returns a result with a non-empty error message, when it
\* succeeds it returns the decoded body.
C7_SendMessageResult ==
    call.op = "get_answer" =>
        /\ call.posts = 1
        /\ ~call.sendRaised
        /\ call.outcome # "ok" =>
              /\ call.result.error # Absent
              /\ call.result.error # ""
        /\ call.outcome = "ok" => call.result = call.body

\* A line without its leading and trailing blanks: the stretch from its
\* first to its last non-blank character.
Trimmed(line) ==
    LET idx == { k \in 1..Len(line) : line[k] # " " }
    IN  IF idx = {} THEN <<>>
        ELSE LET lo == CHOOSE k \in idx : \A j \in idx : k <= j
                 hi == CHOOSE k \in idx : \A j \in idx : j <= k
             IN  [k \in 1..(hi - lo + 1) |-> line[lo + k - 1]]

NonBlank(q) == q # <<>>

\* The questions of a list of lines: each line trimmed, the blank ones
\* dropped, the order kept.
QuestionsOf(lines) ==
    SelectSeq([k \in 1..Len(lines) |-> Trimmed(lines[k])], NonBlank)

\* C8 as stated: the trimmed non-blank lines of a readable file, and the
\* empty list for a file whose reading fails anywhere.
C8_AllOrNothing ==
    pc = "loaded" =>
        questions = IF readFault.raises THEN <<>> ELSE QuestionsOf(questionsFile)

\* C8 amended: load_questions_from_file returns the trimmed non-blank lines
\* of a readable file in their order; when reading fails it returns those
\* of the lines read before the failure, which is the empty list when the
\* file cannot be opened; it does not raise.
C8_LinesReadBeforeFailure ==
    pc = "loaded" =>
        questions =
            IF readFault.raises
            THEN QuestionsOf(SubSeq(questionsFile, 1, readFault.after))
            ELSE QuestionsOf(questionsFile)

\* A blank line dropped, a line trimmed, and a failure after both.
C8_Witness ==
    /\ pc = "loaded"
    /\ questionsFile = << <<" ">>, <<" ", "a", " ">> >>
    /\ readFault = [raises |-> TRUE, after |-> 2]
    /\ questions = << <<"a">> >>

\* C4: the batch run appends one row per question, numbered 1..K in the
\* order of the questions, whether get_answer returned an answer, returned
\* an error string or raised: the row of a call that raised holds the
\* error message, the loop ends only after the K-th question, and a CSV
\* that is written holds exactly these rows.
C4_OneRowPerQuestion ==
    (pc \in {"loop", "done"} /\ questions # <<>>) =>
        /\ Len(answers_only) = i - 1
        /\ \A k \in 1..Len(answers_only) :
              /\ answers_only[k].question_number = k
              /\ answers_only[k].question = questions[k]
        /\ pc = "done" => Len(answers_only) = Len(questions)
        /\ answers_only # <<>> =>
              LET n == Len(answers_only)
                  row == answers_only[n]
              IN  /\ call.question = questions[n]
                  /\ row.answer =
                       IF call.raised
                       THEN "Error at question " \o ToString(n) \o ": " \o call.exc
                       ELSE IF call.outcome # "ok"
                       THEN "Error: " \o call.result.error
                       ELSE call.value
        /\ \A f \in {csvFile, desktopCsvFile} :
              f.kind = "written" =>
                  /\ pc = "done"
                  /\ Len(f.rows) = Len(questions)
                  /\ \A k \in 1..Len(f.rows) :
                        /\ f.rows[k][1] = k
                        /\ f.rows[k][3] = questions[k]
                        /\ f.rows[k][4] = answers_only[k].answer

\* Two questions, the first call raised, the second failed, both rows in
\* the CSV.
C4_Witness ==
    /\ pc = "done"
    /\ Len(questions) = 2
    /\ csvFile.kind = "written"
    /\ answers_only[1].answer = "Error at question 1: TypeError"
    /\ call.outcome = "network"
    /\ Len(answers_only) = 2

\* C9: a blank line, /logs and /help send nothing and leave the log files
\* alone; /quit ends the loop, after which nothing is read or sent; any
\* other line is asked, trimmed, in one get_answer call with one POST.
C9_ChatDispatch ==
    [][/\ pc = "done" => (stdin' = stdin /\ posts' = posts /\ pc' = "done")
       /\ (pc = "chat" /\ stdin # <<>> /\ stdin' # stdin) =>
            LET question == Trimmed(Head(stdin))
            IN  /\ stdin' = Tail(stdin)
                /\ IF question = <<>> \/ question = <<"/logs">> \/ question = <<"/help">>
                   THEN /\ posts' = posts
                        /\ log_file' = log_file /\ desktop_log_file' = desktop_log_file
                        /\ call' = call
                        /\ pc' = "chat"
                   ELSE IF question = <<"/quit">>
                   THEN /\ posts' = posts
                        /\ log_file' = log_file /\ desktop_log_file' = desktop_log_file
                        /\ call' = call
                        /\ pc' = "done"
                   ELSE /\ posts' = posts + 1
                        /\ call'.op = "get_answer"
                        /\ call'.question = question
                        /\ call'.posts = 1
                        /\ pc' = "chat"
       /\ (pc = "chat" /\ stdin' = stdin) => posts' = posts]_vars

\* A question was asked, then /quit was read with a line still unread.
C9_Witness ==
    /\ pc = "done"
    /\ console = <<>>
    /\ posts = 1
    /\ stdin # <<>>

\* C10: the chat loop eventually ends.
C10_Terminates == <>(pc = "done")
====
